---- MODULE Spec2Model ----
(***************************************************************************)
(* Model of the crypto monetizer dashboard (src/src/App.tsx): the wallet   *)
(* connect / balance fetch / rate fetch / AI-summary orchestration of the  *)
(* App component, and the map+sort step of fetchRates that annotates each  *)
(* exchange quote with its net proceeds and ranks the quotes.              *)
(*                                                                         *)
(* JavaScript numbers are modelled as extended rationals [n, d]:           *)
(*   d > 0  : the finite value n/d in lowest terms                         *)
(*   d = 0  : n = 1 is +Infinity, n = -1 is -Infinity, n = 0 is NaN        *)
(* Rounding of IEEE doubles is not modelled, and -0 is identified with +0  *)
(* (no divisor in the program is a computed value).                        *)
(***************************************************************************)
EXTENDS Integers, Sequences, FiniteSets, TLC

\* ------------------------------------------------------------------------
\* Bounds of the model
\* ------------------------------------------------------------------------

\* longest quote list handed to the map+sort step in RankSpec
MaxQuotes == 3

\* number of clicks (on a connect button or on a token button) in one run of Spec
MaxClicks == 3

\* ------------------------------------------------------------------------
\* JavaScript number arithmetic
\* ------------------------------------------------------------------------

Abs(x) == IF x < 0 THEN -x ELSE x

Sign(x) == IF x > 0 THEN 1 ELSE IF x < 0 THEN -1 ELSE 0

RECURSIVE GCD(_, _)
GCD(a, b) == IF b = 0 THEN a ELSE GCD(b, a % b)

\* the number n/d, normalised
Num(n, d) ==
    IF d = 0 THEN [n |-> Sign(n), d |-> 0]
    ELSE LET g == GCD(Abs(n), Abs(d))
             s == IF d < 0 THEN -1 ELSE 1
         IN  [n |-> s * (Abs(n) \div g) * Sign(n), d |-> Abs(d) \div g]

NaN == [n |-> 0, d |-> 0]

IsNaN(a) == a.d = 0 /\ a.n = 0

\* a * b  (finite factors are cancelled crosswise before they are multiplied)
NumMul(a, b) ==
    IF a.d = 0 \/ b.d = 0 THEN Num(a.n * b.n, a.d * b.d)
    ELSE LET g == GCD(Abs(a.n), b.d)
             h == GCD(Abs(b.n), a.d)
         IN  Num((a.n \div g) * (b.n \div h), (a.d \div h) * (b.d \div g))

\* a / b, as a times the reciprocal of b  (x / 0 is +-Infinity, 0 / 0 is NaN)
NumDiv(a, b) == NumMul(a, Num(IF b.n < 0 THEN -b.d ELSE b.d, Abs(b.n)))

\* a - b  (Infinity - Infinity is NaN), over the least common denominator
NumSub(a, b) ==
    IF IsNaN(a) \/ IsNaN(b) THEN NaN
    ELSE IF a.d = 0 /\ b.d = 0 THEN (IF a.n = b.n THEN NaN ELSE a)
    ELSE IF a.d = 0 THEN a
    ELSE IF b.d = 0 THEN [n |-> -b.n, d |-> 0]
    ELSE LET g == GCD(a.d, b.d)
         IN  Num(a.n * (b.d \div g) - b.n * (a.d \div g), (a.d \div g) * b.d)

\* ------------------------------------------------------------------------
\* fetchRates: the map + sort step
\* ------------------------------------------------------------------------

\* netAmount with the fee added instead of deducted
netAmountFeeAdded(t, r) ==
    NumMul(NumMul(t.value, NumDiv(r.price, t.price)),
           NumSub(Num(1, 1), NumSub(Num(0, 1), r.fee)))

\* netAmount: (token.value * (r.price / token.price)) * (1 - r.fee)
netAmount(t, r) ==
    NumMul(NumMul(t.value, NumDiv(r.price, t.price)), NumSub(Num(1, 1), r.fee))

\* data.map(r => ({...r, netAmount: ...}))
MapRates(t, d) ==
    [i \in DOMAIN d |->
        [exchange |-> d[i].exchange, price |-> d[i].price, fee |-> d[i].fee,
         netAmount |-> netAmount(t, d[i])]]

\* the comparator with its operands swapped: a.netAmount - b.netAmount
compareFnAscending(a, b) == Sign(NumSub(a.netAmount, b.netAmount).n)

\* (a, b) => b.netAmount - a.netAmount, as Array.prototype.sort reads it:
\* negative puts a first, positive puts b first, NaN counts as 0
compareFn(a, b) == Sign(NumSub(b.netAmount, a.netAmount).n)

\* whether compareFn is a consistent comparator on the elements of s
\* (ECMAScript: otherwise the sort order is implementation-defined)
ConsistentComparator(s) ==
    \A i, j, k \in DOMAIN s :
        /\ compareFn(s[i], s[j]) = -compareFn(s[j], s[i])
        /\ (compareFn(s[i], s[j]) = 0 /\ compareFn(s[j], s[k]) = 0)
              => compareFn(s[i], s[k]) = 0
        /\ (compareFn(s[i], s[j]) < 0 /\ compareFn(s[j], s[k]) <= 0)
              => compareFn(s[i], s[k]) < 0
        /\ (compareFn(s[i], s[j]) <= 0 /\ compareFn(s[j], s[k]) < 0)
              => compareFn(s[i], s[k]) < 0

\* insert x into the sorted s behind every element that does not sort after it
RECURSIVE InsertSorted(_, _)
InsertSorted(s, x) ==
    IF s = <<>> THEN <<x>>
    ELSE IF compareFn(s[Len(s)], x) > 0
         THEN Append(InsertSorted(SubSeq(s, 1, Len(s) - 1), x), s[Len(s)])
         ELSE Append(s, x)

\* Array.prototype.sort with a consistent comparator: the stable sort
RECURSIVE StableSort(_)
StableSort(s) ==
    IF s = <<>> THEN <<>>
    ELSE InsertSorted(StableSort(SubSeq(s, 1, Len(s) - 1)), s[Len(s)])

IndexPermutations(n) ==
    {p \in [1..n -> 1..n] : \A i, j \in 1..n : p[i] = p[j] => i = j}

\* the arrays .sort(compareFn) can leave behind
SortOutcomes(s) ==
    IF ConsistentComparator(s) THEN {StableSort(s)}
    ELSE {[i \in DOMAIN s |-> s[p[i]]] : p \in IndexPermutations(Len(s))}

\* the values processedRates can take for a token and a response body
ProcessedRates(t, d) == SortOutcomes(MapRates(t, d))

\* ------------------------------------------------------------------------
\* State
\* ------------------------------------------------------------------------

VARIABLES
    ethereum,       \* whether window.ethereum is defined
    account,        \* useState<string | null>(null)
    tokens,         \* useState<Token[]>([])
    selectedToken,  \* useState<Token | null>(null): <<>> is null, <<t>> is t
    rates,          \* useState<ExchangeRate[]>([])
    loading,        \* useState(false)
    aiAnalysis,     \* useState<string>('')
    analyzing,      \* useState(false)
    connects,       \* connectWallet calls suspended at provider.send
    balanceFetches, \* fetchBalances calls suspended at provider.getBalance
    rateFetches,    \* fetchRates calls suspended at fetch / response.json
    aiFetches,      \* analyzeWithAI calls suspended at generateContent
    nClicks,        \* clicks so far; a click's number names the call it starts
    logged,         \* what the handler or continuation that ran last passed
                    \* to console.error
    ratesOf,        \* symbol of the token whose fetchRates call wrote rates
    balancesDone,   \* whether a fetchBalances call has reached setTokens
    token,          \* RankSpec: the token handed to the map+sort step
    data,           \* RankSpec: the response body handed to the map+sort step
    processedRates, \* RankSpec: the array the map+sort step produced
    pc              \* RankSpec: "call" before the step, "done" after it

uiVars == <<account, tokens, selectedToken, rates, loading, aiAnalysis, analyzing>>

reqVars == <<connects, balanceFetches, rateFetches, aiFetches>>

rankVars == <<token, data, processedRates, pc>>

vars == <<ethereum, uiVars, reqVars, nClicks, logged, ratesOf, balancesDone,
          rankVars>>

\* ------------------------------------------------------------------------
\* Values
\* ------------------------------------------------------------------------

\* addresses eth_request_accounts can answer with; "undefined" is accounts[0]
\* of an empty answer
Accounts == {"0xA", "undefined"}

\* account ? ... : ...  (null, undefined and '' are falsy)
Truthy(a) == a \notin {"null", "undefined", ""}

\* balances provider.getBalance can answer with, in units of 10^17 wei
EthBalances == {0, 15}

\* ethers.formatEther followed by parseFloat: wei to ether
formatEther(ethBalance) == Num(ethBalance, 10)

\* const ethPrice = 2845.20
ethPrice == Num(14226, 5)

\* the mockTokens array of fetchBalances
mockTokens(ethBalance) ==
    << [symbol |-> "ETH", balance |-> formatEther(ethBalance), price |-> ethPrice,
        value |-> NumMul(formatEther(ethBalance), ethPrice)],
       [symbol |-> "USDC", balance |-> Num(1250, 1), price |-> Num(1, 1),
        value |-> Num(1250, 1)],
       [symbol |-> "LINK", balance |-> Num(91, 2), price |-> Num(73, 4),
        value |-> NumMul(Num(91, 2), Num(73, 4))] >>

Quote(e, p, f) == [exchange |-> e, price |-> p, fee |-> f]

\* response bodies of GET /api/rates the model lets arrive
RateResponses ==
    { <<>>,
      << Quote("Coinbase", Num(2800, 1), Num(15, 1000)),
         Quote("Binance", Num(2805, 1), Num(1, 1000)) >>,
      << Quote("Binance", Num(2790, 1), Num(1, 1000)),
         Quote("Kraken", Num(2790, 1), Num(1, 1000)) >> }

\* response.text of generateContent for a prompt about symbol s: a text about
\* s, or none
AiTexts(s) == {s, ""}

\* ------------------------------------------------------------------------
\* Init
\* ------------------------------------------------------------------------

NoRank ==
    /\ token = [symbol |-> "none", balance |-> Num(0, 1), price |-> Num(1, 1),
                value |-> Num(0, 1)]
    /\ data = <<>>
    /\ processedRates = <<>>
    /\ pc = "idle"

AppInit ==
    /\ account = "null"
    /\ tokens = <<>>
    /\ selectedToken = <<>>
    /\ rates = <<>>
    /\ loading = FALSE
    /\ aiAnalysis = ""
    /\ analyzing = FALSE
    /\ connects = {}
    /\ balanceFetches = {}
    /\ rateFetches = {}
    /\ aiFetches = {}
    /\ nClicks = 0
    /\ logged = {}
    /\ ratesOf = "none"
    /\ balancesDone = FALSE

Init ==
    /\ ethereum \in BOOLEAN
    /\ AppInit
    /\ NoRank

\* ------------------------------------------------------------------------
\* connectWallet and fetchBalances
\* ------------------------------------------------------------------------

\* click on "Connect Wallet" / "Get Started" up to the await of provider.send
connectWallet ==
    /\ nClicks < MaxClicks
    /\ ethereum
    /\ nClicks' = nClicks + 1
    /\ connects' = connects \cup {nClicks + 1}
    /\ logged' = {}
    /\ UNCHANGED <<ethereum, uiVars, balanceFetches, rateFetches, aiFetches,
                   ratesOf, balancesDone, rankVars>>

\* the click without a wallet provider: alert("Please install MetaMask!")
connectWalletNoProvider ==
    /\ nClicks < MaxClicks
    /\ ~ethereum
    /\ nClicks' = nClicks + 1
    /\ logged' = {}
    /\ UNCHANGED <<ethereum, uiVars, reqVars, ratesOf, balancesDone,
                   rankVars>>

\* provider.send resolves: setAccount(accounts[0]); fetchBalances(...) runs up
\* to its await of provider.getBalance
connectResolve ==
    \E id \in connects, a \in Accounts :
        /\ connects' = connects \ {id}
        /\ account' = a
        /\ loading' = TRUE
        /\ balanceFetches' = balanceFetches \cup {[id |-> id, address |-> a]}
        /\ logged' = {}
        /\ UNCHANGED <<ethereum, tokens, selectedToken, rates, aiAnalysis,
                       analyzing, rateFetches, aiFetches, nClicks,
                       ratesOf, balancesDone, rankVars>>

\* provider.send rejects: the catch of connectWallet
connectReject ==
    \E id \in connects :
        /\ connects' = connects \ {id}
        /\ logged' = {"User denied account access"}
        /\ UNCHANGED <<ethereum, uiVars, balanceFetches, rateFetches, aiFetches,
                       nClicks, ratesOf, balancesDone, rankVars>>

\* provider.getBalance resolves: setTokens(mockTokens), then the finally
balanceResolve ==
    \E req \in balanceFetches, ethBalance \in EthBalances :
        /\ Truthy(req.address)
        /\ balanceFetches' = balanceFetches \ {req}
        /\ tokens' = mockTokens(ethBalance)
        /\ loading' = FALSE
        /\ balancesDone' = TRUE
        /\ logged' = {}
        /\ UNCHANGED <<ethereum, account, selectedToken, rates, aiAnalysis,
                       analyzing, connects, rateFetches, aiFetches, nClicks,
                       ratesOf, rankVars>>

\* provider.getBalance rejects: the catch of fetchBalances, then the finally
balanceReject ==
    \E req \in balanceFetches :
        /\ balanceFetches' = balanceFetches \ {req}
        /\ loading' = FALSE
        /\ logged' = {"Error fetching balances"}
        /\ UNCHANGED <<ethereum, account, tokens, selectedToken, rates,
                       aiAnalysis, analyzing, connects, rateFetches, aiFetches,
                       nClicks, ratesOf, balancesDone, rankVars>>

\* ------------------------------------------------------------------------
\* Token selection, fetchRates and analyzeWithAI
\* ------------------------------------------------------------------------

\* the token buttons rendered outside the account conditional
selectTokenUnguarded(i) ==
    /\ nClicks < MaxClicks
    /\ nClicks' = nClicks + 1
    /\ selectedToken' = <<tokens[i]>>
    /\ loading' = TRUE
    /\ rateFetches' = rateFetches \cup {[id |-> nClicks + 1, token |-> tokens[i]]}
    /\ logged' = {}
    /\ UNCHANGED <<ethereum, account, tokens, rates, aiAnalysis, analyzing,
                   connects, balanceFetches, aiFetches, ratesOf, balancesDone,
                   rankVars>>

\* click on the button of tokens[i] (rendered from tokens, only while account
\* is truthy): setSelectedToken(token); fetchRates(token) runs up to its await
selectTokenAt(i) ==
    /\ Truthy(account)
    /\ nClicks < MaxClicks
    /\ nClicks' = nClicks + 1
    /\ selectedToken' = <<tokens[i]>>
    /\ loading' = TRUE
    /\ rateFetches' = rateFetches \cup {[id |-> nClicks + 1, token |-> tokens[i]]}
    /\ logged' = {}
    /\ UNCHANGED <<ethereum, account, tokens, rates, aiAnalysis, analyzing,
                   connects, balanceFetches, aiFetches, ratesOf, balancesDone,
                   rankVars>>

selectToken == \E i \in DOMAIN tokens : selectTokenAt(i)

\* analyzeWithAI reading the selected token instead of its parameter
AiRequestOfSelection(id, t, currentRates) ==
    [id |-> id, token |-> selectedToken[1], currentRates |-> currentRates,
     bestExchange |-> currentRates[1]]

\* the request analyzeWithAI(t, currentRates) sends for the fetchRates call id
AiRequest(id, t, currentRates) ==
    [id |-> id, token |-> t, currentRates |-> currentRates,
     bestExchange |-> currentRates[1]]

\* fetchRates with an empty body taken as a failure: its catch and finally
rateResolveEmptyThrows(req, d, currentRates) ==
    /\ rateFetches' = rateFetches \ {req}
    /\ IF currentRates = <<>>
       THEN /\ logged' = {"Error fetching rates"}
            /\ UNCHANGED <<rates, ratesOf, analyzing, aiFetches>>
       ELSE /\ rates' = currentRates
            /\ ratesOf' = req.token.symbol
            /\ analyzing' = TRUE
            /\ aiFetches' = aiFetches \cup
                              {AiRequest(req.id, req.token, currentRates)}
            /\ logged' = {}
    /\ loading' = FALSE
    /\ UNCHANGED <<ethereum, account, tokens, selectedToken, aiAnalysis,
                   connects, balanceFetches, nClicks, balancesDone, rankVars>>

\* fetchRates dropping the response of a token that is no longer selected
rateResolveIfSelected(req, d, currentRates) ==
    /\ rateFetches' = rateFetches \ {req}
    /\ IF selectedToken # <<req.token>>
       THEN /\ logged' = {}
            /\ UNCHANGED <<rates, ratesOf, analyzing, aiFetches>>
       ELSE /\ rates' = currentRates
            /\ ratesOf' = req.token.symbol
            /\ IF currentRates = <<>>
               THEN /\ analyzing' = FALSE
                    /\ aiFetches' = aiFetches
                    /\ logged' = {"AI Analysis failed"}
               ELSE /\ analyzing' = TRUE
                    /\ aiFetches' = aiFetches \cup
                                      {AiRequest(req.id, req.token, currentRates)}
                    /\ logged' = {}
    /\ loading' = FALSE
    /\ UNCHANGED <<ethereum, account, tokens, selectedToken, aiAnalysis,
                   connects, balanceFetches, nClicks, balancesDone, rankVars>>

\* fetch and response.json of the call req resolve with the body d: map, sort
\* (leaving currentRates), setRates, then analyzeWithAI runs up to its await of
\* generateContent, or, with no rates, into its own catch and finally
\* (bestExchange.exchange of undefined throws); then the finally of fetchRates
rateResolveWith(req, d, currentRates) ==
    /\ rateFetches' = rateFetches \ {req}
    /\ rates' = currentRates
    /\ ratesOf' = req.token.symbol
    /\ IF currentRates = <<>>
       THEN /\ analyzing' = FALSE
            /\ aiFetches' = aiFetches
            /\ logged' = {"AI Analysis failed"}
       ELSE /\ analyzing' = TRUE
            /\ aiFetches' = aiFetches \cup
                              {AiRequest(req.id, req.token, currentRates)}
            /\ logged' = {}
    /\ loading' = FALSE
    /\ UNCHANGED <<ethereum, account, tokens, selectedToken, aiAnalysis,
                   connects, balanceFetches, nClicks, balancesDone, rankVars>>

rateResolve ==
    \E req \in rateFetches, d \in RateResponses :
        \E currentRates \in ProcessedRates(req.token, d) :
            rateResolveWith(req, d, currentRates)

\* fetch or response.json rejects: the catch of fetchRates, then the finally
rateReject ==
    \E req \in rateFetches :
        /\ rateFetches' = rateFetches \ {req}
        /\ loading' = FALSE
        /\ logged' = {"Error fetching rates"}
        /\ UNCHANGED <<ethereum, account, tokens, selectedToken, rates,
                       aiAnalysis, analyzing, connects, balanceFetches,
                       aiFetches, nClicks, ratesOf, balancesDone,
                       rankVars>>

\* generateContent resolves: setAiAnalysis(response.text || ''), then the finally
aiResolve ==
    \E req \in aiFetches :
        \E text \in AiTexts(req.token.symbol) :
            /\ aiFetches' = aiFetches \ {req}
            /\ aiAnalysis' = text
            /\ analyzing' = FALSE
            /\ logged' = {}
            /\ UNCHANGED <<ethereum, account, tokens, selectedToken, rates,
                           loading, connects, balanceFetches, rateFetches,
                           nClicks, ratesOf, balancesDone, rankVars>>

\* generateContent rejects: the catch of analyzeWithAI, then the finally
aiReject ==
    \E req \in aiFetches :
        /\ aiFetches' = aiFetches \ {req}
        /\ analyzing' = FALSE
        /\ logged' = {"AI Analysis failed"}
        /\ UNCHANGED <<ethereum, account, tokens, selectedToken, rates, loading,
                       aiAnalysis, connects, balanceFetches, rateFetches,
                       nClicks, ratesOf, balancesDone, rankVars>>

Next ==
    \/ connectWallet
    \/ connectWalletNoProvider
    \/ connectResolve
    \/ connectReject
    \/ balanceResolve
    \/ balanceReject
    \/ selectToken
    \/ rateResolve
    \/ rateReject
    \/ aiResolve
    \/ aiReject

Spec == Init /\ [][Next]_vars

\* ------------------------------------------------------------------------
\* RankSpec: the map+sort step of fetchRates on its own, over every token
\* and response body of the sets below
\* ------------------------------------------------------------------------

\* holdings (value, price): the scenario holding, a worthless one, a negative
\* one, and holdings without a unit price
RankTokens ==
    { [symbol |-> "ETH", balance |-> Num(1, 1), price |-> Num(p, 1), value |-> Num(v, 1)] :
        <<v, p>> \in {<<1000, 2800>>, <<0, 2800>>, <<-1000, 2800>>,
                      <<1000, 0>>, <<0, 0>>} }

\* quotes: A and B of the scenario; C and D with the net proceeds of A; and
\* quotes outside the Quote domain (no price, fee of 1, fee above 1, fee below 0)
RankQuotes ==
    { Quote("A", Num(2800, 1), Num(1, 100)),
      Quote("B", Num(2805, 1), Num(2, 100)),
      Quote("C", Num(2800, 1), Num(1, 100)),
      Quote("D", Num(5600, 1), Num(101, 200)),
      Quote("Z", Num(0, 1), Num(0, 1)),
      Quote("F", Num(2800, 1), Num(1, 1)),
      Quote("G", Num(2800, 1), Num(3, 2)),
      Quote("N", Num(2800, 1), Num(-1, 10)) }

SeqsUpTo(S, n) == UNION {[1..k -> S] : k \in 0..n}

RankInit ==
    /\ ethereum = TRUE
    /\ AppInit
    /\ token \in RankTokens
    /\ data \in SeqsUpTo(RankQuotes, MaxQuotes)
    /\ processedRates = <<>>
    /\ pc = "call"

\* const processedRates = data.map(...).sort(...)
Rank ==
    /\ pc = "call"
    /\ processedRates' \in ProcessedRates(token, data)
    /\ pc' = "done"
    /\ UNCHANGED <<ethereum, uiVars, reqVars, nClicks, logged,
                   ratesOf, balancesDone, token, data>>

RankNext == Rank

RankSpec == RankInit /\ [][RankNext]_vars

\* ------------------------------------------------------------------------
\* Properties of the map+sort step (checked under RankSpec)
\* ------------------------------------------------------------------------

\* a >= b and a = b on finite numbers, by cross-multiplication
Geq(a, b) == a.n * b.d >= b.n * a.d

Same(a, b) == a.n * b.d = b.n * a.d

Positive(a) == a.d > 0 /\ a.n > 0

\* the Quote domain: unit price > 0 and 0 <= fee < 1
ValidQuote(q) ==
    /\ Positive(q.price)
    /\ q.fee.d > 0 /\ q.fee.n >= 0 /\ q.fee.n < q.fee.d

\* the Holding domain: unit price > 0 and total value >= 0
ValidHolding(t) == Positive(t.price) /\ t.value.d > 0 /\ t.value.n >= 0

RawQuote(r) == Quote(r.exchange, r.price, r.fee)

\* C1: for a holding with unit price > 0 and valid quotes, the ranked list is a
\* permutation of the input quotes, sorted non-increasing by netAmount, quotes
\* of equal netAmount keep their input order, and the first entry ("Best
\* Value") has the maximum netAmount.
C1_RankedStableDescending ==
    (pc = "done" /\ Positive(token.price) /\ \A i \in DOMAIN data : ValidQuote(data[i]))
    => /\ Len(processedRates) = Len(data)
       /\ \E p \in IndexPermutations(Len(data)) :
            /\ \A i \in DOMAIN data : RawQuote(processedRates[i]) = data[p[i]]
            /\ \A i, j \in DOMAIN data :
                 i < j =>
                   /\ Geq(processedRates[i].netAmount, processedRates[j].netAmount)
                   /\ Same(processedRates[i].netAmount, processedRates[j].netAmount)
                        => p[i] < p[j]
       /\ \A i \in DOMAIN processedRates :
            Geq(processedRates[1].netAmount, processedRates[i].netAmount)

\* a ranking that moved the best quote to the front and kept a tie in input order
C1_Witness ==
    /\ pc = "done"
    /\ Positive(token.price) /\ token.value.n > 0
    /\ \A i \in DOMAIN data : ValidQuote(data[i])
    /\ Len(data) = 3
    /\ data[1].exchange = "B" /\ data[2].exchange = "C" /\ data[3].exchange = "A"
    /\ processedRates[1].exchange = "C"
    /\ processedRates[2].exchange = "A"
    /\ processedRates[3].exchange = "B"

\* C2: every ranked quote q has q.netAmount = H.totalValue * (q.unitPrice /
\* H.unitPrice) * (1 - q.fee), with exchange, price and fee copied from a raw
\* quote; on the scenario holding with quotes A and B the result is A with
\* 990 followed by B with 981.75.
C2_NetAmountFormula ==
    (pc = "done" /\ Positive(token.price))
    => /\ \A i \in DOMAIN processedRates :
            LET q == processedRates[i] IN
            /\ \E j \in DOMAIN data : RawQuote(q) = data[j]
            /\ q.netAmount.d > 0
            /\ q.netAmount.n * (token.value.d * token.price.n * q.price.d * q.fee.d)
                 = q.netAmount.d
                     * (token.value.n * q.price.n * token.price.d * (q.fee.d - q.fee.n))
       /\ (/\ token.value = Num(1000, 1) /\ token.price = Num(2800, 1)
           /\ data = << Quote("A", Num(2800, 1), Num(1, 100)),
                        Quote("B", Num(2805, 1), Num(2, 100)) >>)
          => processedRates =
               << [exchange |-> "A", price |-> Num(2800, 1), fee |-> Num(1, 100),
                   netAmount |-> Num(990, 1)],
                  [exchange |-> "B", price |-> Num(2805, 1), fee |-> Num(2, 100),
                   netAmount |-> Num(98175, 100)] >>

\* the scenario of the specification's section 8 has been ranked
C2_Witness ==
    /\ pc = "done"
    /\ token.value = Num(1000, 1) /\ token.price = Num(2800, 1)
    /\ Len(data) = 2 /\ data[1].exchange = "A" /\ data[2].exchange = "B"
    /\ Len(processedRates) = 2
    /\ processedRates[2].netAmount = Num(98175, 100)

\* C3 (as claimed): a malformed quote (unit price <= 0, fee < 0 or fee >= 1)
\* never appears in the ranked result.
C3_MalformedQuoteExcluded ==
    pc = "done" => \A i \in DOMAIN processedRates : ValidQuote(processedRates[i])

rateResolveEmpty == \E req \in rateFetches : rateResolveWith(req, <<>>, <<>>)

\* C5: when the rate endpoint answers [], fetchRates stores rates = [] without
\* entering its error path, and loading and analyzing are both false afterwards.
C5_EmptyQuotesNotAnError ==
    [][rateResolveEmpty =>
         /\ rates' = <<>>
         /\ "Error fetching rates" \notin logged'
         /\ loading' = FALSE
         /\ analyzing' = FALSE]_vars

\* an empty body has arrived while the summary of an earlier ranking is still
\* in flight: rates is empty and both flags are false
C5_Witness ==
    /\ rates = <<>>
    /\ ratesOf # "none"
    /\ "AI Analysis failed" \in logged
    /\ rateFetches = {}
    /\ aiFetches # {}
    /\ ~loading /\ ~analyzing

\* C6: a rate fetch is issued only with a connected wallet, after a balance
\* fetch has completed successfully (tokens non-empty), for a token of the
\* list, which the same click selects.
C6_RateFetchAfterBalance ==
    [][\A req \in rateFetches' \ rateFetches :
         /\ Truthy(account)
         /\ balancesDone
         /\ tokens # <<>>
         /\ \E i \in DOMAIN tokens : tokens[i] = req.token
         /\ selectedToken' = <<req.token>>]_vars

\* a rate fetch is in flight
C6_Witness ==
    /\ rateFetches # {}
    /\ selectedToken # <<>>
    /\ balancesDone

\* the step completes the fetchRates call req without entering its catch
rateCompleted(req) ==
    /\ req \in rateFetches
    /\ req \notin rateFetches'
    /\ "Error fetching rates" \notin logged'

\* C7 (as claimed): an AI-summary fetch is issued exactly once per successful
\* rate fetch, with that fetch's token and ranked list as its input.
C7_OneSummaryPerRateFetch ==
    [][\A req \in rateFetches :
         rateCompleted(req)
         => /\ Cardinality(aiFetches' \ aiFetches) = 1
            /\ \A a \in aiFetches' \ aiFetches :
                 a.id = req.id /\ a.token = req.token /\ a.currentRates = rates']_vars

\* C7 (amended): an AI-summary fetch is issued only by the successful
\* completion of a rate fetch, never while that rate fetch is pending; a
\* completion with a non-empty ranked list issues exactly one, whose input is
\* that fetch's token and the list stored into rates; a completion with an
\* empty list issues none; a failed rate fetch issues none and leaves rates
\* and aiAnalysis unchanged.
C7_SummaryFollowsRateFetch ==
    [][/\ (aiFetches' \ aiFetches # {}) => \E req \in rateFetches : rateCompleted(req)
       /\ \A req \in rateFetches :
            rateCompleted(req)
            => /\ aiFetches' \ aiFetches =
                    IF rates' = <<>> THEN {}
                    ELSE {[id |-> req.id, token |-> req.token,
                           currentRates |-> rates', bestExchange |-> rates'[1]]}
               /\ \A a \in aiFetches : a.id # req.id
       /\ \A a \in aiFetches' : \A r \in rateFetches' : a.id # r.id
       /\ rateReject =>
            /\ aiFetches' = aiFetches
            /\ rates' = rates
            /\ aiAnalysis' = aiAnalysis]_vars

\* a summary request for the stored ranking is in flight while the token
\* selected after it is still being fetched
C7_Witness ==
    /\ analyzing
    /\ rateFetches # {}
    /\ \E a \in aiFetches :
         /\ a.currentRates = rates
         /\ a.token.symbol = ratesOf
         /\ selectedToken # <<a.token>>

\* the display fields of the view other than the in-progress flags
display == <<account, tokens, selectedToken, rates, aiAnalysis>>

\* C8 (as claimed): a failed balance, rate or AI-summary fetch records a
\* user-visible failure indication in the UI state, resets its in-progress
\* flag to false and is not retried.
C8_FailureShownInline ==
    [][/\ balanceReject => (display' # display /\ loading' = FALSE)
       /\ rateReject => (display' # display /\ loading' = FALSE)
       /\ aiReject => (display' # display /\ analyzing' = FALSE)
       /\ (balanceReject \/ rateReject \/ aiReject) =>
            /\ balanceFetches' \subseteq balanceFetches
            /\ rateFetches' \subseteq rateFetches
            /\ aiFetches' \subseteq aiFetches]_vars

\* C9: nothing cancels a request: a click leaves every pending request
\* pending, and a completing rate fetch stores the ranking computed for its
\* own token whatever token is selected by then.
C9_NoCancellation ==
    [][/\ (nClicks' # nClicks) =>
            /\ connects \subseteq connects'
            /\ balanceFetches \subseteq balanceFetches'
            /\ rateFetches \subseteq rateFetches'
            /\ aiFetches \subseteq aiFetches'
       /\ \A req \in rateFetches :
            rateCompleted(req) =>
                /\ ratesOf' = req.token.symbol
                /\ \E d \in RateResponses :
                     /\ Len(rates') = Len(d)
                     /\ \A i \in DOMAIN d : \E k \in DOMAIN d :
                          /\ RawQuote(rates'[k]) = d[i]
                          /\ rates'[k].netAmount = netAmount(req.token, d[i])]_vars

\* every request has resolved, USDC is selected, and the rates on display
\* (rates[0] being the "Estimated Payout") are the ones computed for LINK
C9_StaleRates ==
    /\ connects = {} /\ balanceFetches = {} /\ rateFetches = {} /\ aiFetches = {}
    /\ selectedToken # <<>>
    /\ selectedToken[1].symbol = "USDC"
    /\ ratesOf = "LINK"
    /\ rates # <<>>
    /\ \E i \in DOMAIN tokens :
         /\ tokens[i].symbol = "LINK"
         /\ \A k \in DOMAIN rates :
              /\ rates[k].netAmount = netAmount(tokens[i], rates[k])
              /\ rates[k].netAmount # netAmount(selectedToken[1], rates[k])

\* C10 (as claimed): each display field has at most one in-flight request
\* whose completion will write it.
C10_SingleWriterPerField ==
    /\ Cardinality(balanceFetches) <= 1
    /\ Cardinality(rateFetches) <= 1
    /\ Cardinality(aiFetches) <= 1
    /\ Cardinality(balanceFetches) + Cardinality(rateFetches) <= 1
    /\ Cardinality(rateFetches) + Cardinality(aiFetches) <= 1

\* ------------------------------------------------------------------------
\* DashboardSpec: the App from the dashboard on, that is from the state a
\* first connectWallet and its fetchBalances leave behind when both succeed;
\* clicks are counted from there
\* ------------------------------------------------------------------------

DashboardInit ==
    /\ ethereum = TRUE
    /\ account = "0xA"
    /\ \E ethBalance \in EthBalances : tokens = mockTokens(ethBalance)
    /\ selectedToken = <<>>
    /\ rates = <<>>
    /\ loading = FALSE
    /\ aiAnalysis = ""
    /\ analyzing = FALSE
    /\ connects = {}
    /\ balanceFetches = {}
    /\ rateFetches = {}
    /\ aiFetches = {}
    /\ nClicks = 0
    /\ logged = {}
    /\ ratesOf = "none"
    /\ balancesDone = TRUE
    /\ NoRank

DashboardNext ==
    \/ connectWallet
    \/ connectResolve
    \/ connectReject
    \/ balanceResolve
    \/ balanceReject
    \/ selectToken
    \/ rateResolve
    \/ rateReject
    \/ aiResolve
    \/ aiReject

DashboardSpec == DashboardInit /\ [][DashboardNext]_vars

\* ------------------------------------------------------------------------
\* Properties of the AI summary on display (checked under DashboardSpec)
\* ------------------------------------------------------------------------

\* the body of the "AI Market Analysis" card, rendered once a token is selected
AiInsights ==
    IF analyzing THEN "Analyzing market depth and liquidity..." ELSE aiAnalysis

\* the summary stored is the one of a token other than the selected one
StaleSummary ==
    /\ selectedToken # <<>>
    /\ aiAnalysis # ""
    /\ aiAnalysis # selectedToken[1].symbol

\* C11 (as claimed): selecting a token never clears aiAnalysis, and the
\* summary of a token A that is stored while another token B is selected stays
\* stored, and shown whenever analyzing is false, until a summary for B
\* arrives: a failed rate or AI-summary fetch and an empty quote list leave it
\* in place.
C11_StaleSummaryUntilOwn ==
    [][/\ (nClicks' # nClicks) => aiAnalysis' = aiAnalysis
       /\ (rateReject \/ aiReject \/ rateResolveEmpty) => aiAnalysis' = aiAnalysis
       /\ (StaleSummary /\ aiAnalysis' # aiAnalysis) =>
            \E req \in aiFetches \ aiFetches' :
                req.token.symbol = selectedToken[1].symbol
       /\ (StaleSummary' /\ ~analyzing') => AiInsights' = aiAnalysis']_vars

\* ------------------------------------------------------------------------
\* EndpointSpec: the handler of GET /api/rates on its own, over the symbols
\* and the Math.random() draws of the sets below.  token.symbol is the symbol
\* of the query and data the body the handler answers with
\* ------------------------------------------------------------------------

\* symbols of the query string: those of the dashboard's tokens, BTC, and an
\* absent one
QuerySymbols == {"ETH", "BTC", "USDC", "LINK", "undefined"}

\* values of Math.random(), which lie in [0, 1)
RandomDraws == {Num(0, 1), Num(1, 2), Num(999, 1000)}

\* symbol === 'ETH' ? 2800 : symbol === 'BTC' ? 65000 : 100
basePrice(symbol) ==
    IF symbol = "ETH" THEN Num(2800, 1)
    ELSE IF symbol = "BTC" THEN Num(65000, 1) ELSE Num(100, 1)

\* the price spread ten times as wide: Math.random() * 0.1 - 0.005
randomPriceWide(base, r) ==
    NumMul(base, NumSub(Num(1, 1),
                        NumSub(Num(5, 1000), NumMul(r, Num(1, 10)))))

\* basePrice * (1 + (Math.random() * 0.01 - 0.005)) for the draw r
randomPrice(base, r) ==
    NumMul(base, NumSub(Num(1, 1),
                        NumSub(Num(5, 1000), NumMul(r, Num(1, 100)))))

\* the rates array of the handler for four draws
ratesBody(symbol, r) ==
    << Quote("Coinbase", randomPrice(basePrice(symbol), r[1]), Num(15, 1000)),
       Quote("Binance", randomPrice(basePrice(symbol), r[2]), Num(1, 1000)),
       Quote("Kraken", randomPrice(basePrice(symbol), r[3]), Num(26, 10000)),
       Quote("Uniswap (DEX)", randomPrice(basePrice(symbol), r[4]), Num(3, 1000)) >>

EndpointInit ==
    /\ ethereum = TRUE
    /\ AppInit
    /\ \E symbol \in QuerySymbols :
         token = [symbol |-> symbol, balance |-> Num(0, 1), price |-> Num(1, 1),
                  value |-> Num(0, 1)]
    /\ data = <<>>
    /\ processedRates = <<>>
    /\ pc = "request"

\* app.get("/api/rates", ...): res.json(rates)
ratesEndpoint ==
    /\ pc = "request"
    /\ \E r \in [1..4 -> RandomDraws] : data' = ratesBody(token.symbol, r)
    /\ pc' = "responded"
    /\ UNCHANGED <<ethereum, uiVars, reqVars, nClicks, logged, ratesOf,
                   balancesDone, token, processedRates>>

EndpointNext == ratesEndpoint

EndpointSpec == EndpointInit /\ [][EndpointNext]_vars

\* ------------------------------------------------------------------------
\* Properties of the rate endpoint (checked under EndpointSpec)
\* ------------------------------------------------------------------------

\* C12: every body the rate endpoint answers with has exactly four quotes with
\* pairwise distinct exchanges, each with a unit price > 0 within 0.5% of the
\* symbol's base price and a fee with 0 <= fee < 1: no quote is malformed.
C12_EndpointQuotesValid ==
    pc = "responded" =>
        /\ Len(data) = 4
        /\ \A i, j \in DOMAIN data : data[i].exchange = data[j].exchange => i = j
        /\ \A i \in DOMAIN data :
             LET base == IF token.symbol = "ETH" THEN 2800
                         ELSE IF token.symbol = "BTC" THEN 65000 ELSE 100
                 p == data[i].price
             IN  /\ ValidQuote(data[i])
                 /\ 200 * (p.n - base * p.d) <= base * p.d
                 /\ 200 * (base * p.d - p.n) <= base * p.d

\* a BTC body with both ends of the price range in it
C12_Witness ==
    /\ pc = "responded"
    /\ token.symbol = "BTC"
    /\ Len(data) = 4
    /\ data[1].price = Num(64675, 1)
    /\ data[2].price.n * 1 > 65000 * data[2].price.d

\* ------------------------------------------------------------------------
\* Properties of the loading flag (checked under Spec)
\* ------------------------------------------------------------------------

\* C13 (as claimed): loading is true whenever a balance fetch or a rate fetch
\* is in flight, and false once none is.
C13_LoadingReflectsPending ==
    loading <=> (balanceFetches # {} \/ rateFetches # {})

====
